---- MODULE Spec2Model ----
(***************************************************************************)
(* Model of src/main.rs of voice-memo-clip-player: the read-only query of  *)
(* the Voice Memos database, the random choice of a memo and of a 30       *)
(* second window, and the ffmpeg / curl / VLC pipeline that turns the      *)
(* window into a slideshow video inside a per-process temporary directory. *)
(*                                                                         *)
(* f64 values are modelled as exact multiples of one half, [w, f] standing *)
(* for w + f / 2 with f in {0, 1}; SQLite column values carry their        *)
(* storage class.                                                          *)
(***************************************************************************)
EXTENDS Integers, Sequences, FiniteSets, TLC

VARIABLES
    home,         \* is the HOME environment variable set
    fs,           \* the file system: path -> content
    pc,           \* position of main()
    memos,        \* Vec<VoiceMemo> returned by get_all_voice_memos
    memo,         \* the selected VoiceMemo
    start_time,   \* the selected start offset
    datetime,     \* the Unix time of the selected memo
    image_paths,  \* images downloaded so far
    invoked,      \* external processes run so far, with their outcome
    touched,      \* paths handed to a create / write / remove operation
    removed,      \* paths whose removal has been attempted
    console,      \* messages printed so far
    exitCode,     \* process exit status once pc = "exit"
    arg,          \* argument of core_data_to_unix_timestamp
    ret           \* its result

vars == <<home, fs, pc, memos, memo, start_time, datetime, image_paths,
          invoked, touched, removed, console, exitCode, arg, ret>>

(***************************************************************************)
(* Bounds                                                                  *)
(***************************************************************************)
MaxRows == 2          \* rows of ZCLOUDRECORDING in a run
MaxQueryRows == 2     \* rows of ZCLOUDRECORDING when only the query is run
MaxExtra == 1         \* durations go up to 30 + MaxExtra seconds
TsSpread == 13        \* timestamps lie within TsSpread seconds of an anchor

(***************************************************************************)
(* Program constants                                                       *)
(***************************************************************************)
CORE_DATA_EPOCH_OFFSET == 978307200
THIRTY == 30
IMAGE_COUNT == 6
MIN_IMAGE_LEN == 10000
ERROR_EXIT == 1
PANIC_EXIT == 101

(***************************************************************************)
(* f64                                                                     *)
(***************************************************************************)
F64(w, f) == [w |-> w, f |-> f]
F64Int(n) == F64(n, 0)
F64Gt(a, b) == a.w > b.w \/ (a.w = b.w /\ a.f > b.f)
F64Lt(a, b) == F64Gt(b, a)
F64Le(a, b) == ~F64Gt(a, b)
F64AddInt(a, n) == F64(a.w + n, a.f)
\* `x as i64`: the fraction is dropped, rounding toward zero
AsI64(a) == IF a.w < 0 /\ a.f > 0 THEN a.w + 1 ELSE a.w

(***************************************************************************)
(* SQLite values, by storage class, and rusqlite's FromSql conversions     *)
(***************************************************************************)
SqlNull == [type |-> "null"]
SqlBlob == [type |-> "blob"]
SqlText(s) == [type |-> "text", s |-> s]
SqlInteger(n) == [type |-> "integer", n |-> n]
SqlReal(x) == [type |-> "real", w |-> x.w, f |-> x.f]

Err == [ok |-> FALSE]
Ok(v) == [ok |-> TRUE, v |-> v]

\* row.get::<_, String>(i)
GetString(v) == IF v.type = "text" THEN Ok(v.s) ELSE Err

\* row.get::<_, f64>(i)
GetF64(v) ==
    CASE v.type = "real" -> Ok(F64(v.w, v.f))
      [] v.type = "integer" -> Ok(F64Int(v.n))
      [] OTHER -> Err

\* WHERE ZDURATION > 30.0: NULL compares to NULL, numbers compare by value,
\* TEXT and BLOB sort after every number
WhereDurationMutant(v) ==
    CASE v.type = "null" -> FALSE
      [] v.type = "real" -> ~F64Lt(F64(v.w, v.f), F64Int(THIRTY))
      [] v.type = "integer" -> v.n >= THIRTY
      [] OTHER -> TRUE

WhereDuration(v) ==
    CASE v.type = "null" -> FALSE
      [] v.type = "real" -> F64Gt(F64(v.w, v.f), F64Int(THIRTY))
      [] v.type = "integer" -> v.n > THIRTY
      [] OTHER -> TRUE

(***************************************************************************)
(* core_data_to_unix_timestamp                                             *)
(***************************************************************************)
core_data_to_unix_timestamp_mutant(t) ==
    AsI64(F64AddInt(t, 0 - CORE_DATA_EPOCH_OFFSET))

core_data_to_unix_timestamp(t) ==
    AsI64(F64AddInt(t, CORE_DATA_EPOCH_OFFSET))

(***************************************************************************)
(* get_all_voice_memos: the closure mapping a row, and the query           *)
(***************************************************************************)
\* title: ZENCRYPTEDTITLE, else ZCUSTOMLABEL, else "Untitled"
ResolveTitleMutant(row) ==
    IF GetString(row.ZCUSTOMLABEL).ok THEN GetString(row.ZCUSTOMLABEL).v
    ELSE IF GetString(row.ZENCRYPTEDTITLE).ok
    THEN GetString(row.ZENCRYPTEDTITLE).v
    ELSE "Untitled"

ResolveTitle(row) ==
    IF GetString(row.ZENCRYPTEDTITLE).ok THEN GetString(row.ZENCRYPTEDTITLE).v
    ELSE IF GetString(row.ZCUSTOMLABEL).ok THEN GetString(row.ZCUSTOMLABEL).v
    ELSE "Untitled"

\* the closure of query_map: Ok(VoiceMemo) or the first `?` that fails
MapRow(row) ==
    IF ~GetF64(row.ZDATE).ok THEN Err
    ELSE IF ~GetF64(row.ZDURATION).ok THEN Err
    ELSE IF ~GetString(row.ZPATH).ok THEN Err
    ELSE Ok([title |-> ResolveTitle(row),
             date |-> GetF64(row.ZDATE).v,
             duration |-> GetF64(row.ZDURATION).v,
             path |-> GetString(row.ZPATH).v])

\* query_map over the rows the WHERE clause keeps, then filter_map(|r| r.ok())
RECURSIVE QueryMemos(_)
QueryMemos(rows) ==
    IF rows = <<>> THEN <<>>
    ELSE LET row == Head(rows)
             rest == QueryMemos(Tail(rows))
         IN  IF WhereDuration(row.ZDURATION) /\ MapRow(row).ok
             THEN <<MapRow(row).v>> \o rest
             ELSE rest

(***************************************************************************)
(* Paths and file contents                                                 *)
(***************************************************************************)
Path(dir, name) == [dir |-> dir, name |-> name]
get_voice_memos_dir == "Recordings"
get_voice_memos_db_path == Path(get_voice_memos_dir, "CloudRecordings.db")
SystemTemp == "tmp"
TempDirName == "voice_memo_pid"
temp_dir == Path(SystemTemp, TempDirName)
TempJoinMutant(name) == Path(get_voice_memos_dir, name)

TempJoin(name) == Path(TempDirName, name)
clip_path == TempJoin("audio_clip.m4a")
image_path(i) == TempJoin("image_" \o ToString(i) \o ".jpg")
concat_file == TempJoin("concat_pid.txt")
video_path == TempJoin("voice_memo_video_pid.mp4")
full_path(m) == Path(get_voice_memos_dir, m.path)

RecNames == {"a.m4a", "b.m4a"}
RecPaths == {Path(get_voice_memos_dir, n) : n \in RecNames}
TempFiles == {clip_path, concat_file, video_path}
                \cup {image_path(i) : i \in 0..(IMAGE_COUNT - 1)}
SourcePaths == {get_voice_memos_db_path} \cup RecPaths
Paths == SourcePaths \cup {temp_dir} \cup TempFiles
InTempDir(p) == p = temp_dir \/ p.dir = TempDirName

Absent == [kind |-> "absent"]
DbFile(rows) == [kind |-> "db", rows |-> rows]
AudioFile(n) == [kind |-> "audio", of |-> n]
Directory == [kind |-> "dir"]
ClipFile(src, from) == [kind |-> "clip", of |-> src, from |-> from]
ImageFile(len) == [kind |-> "image", len |-> len]
ConcatFile(lines) == [kind |-> "concat", lines |-> lines]
VideoFile(date) == [kind |-> "video", comment |-> date]
Partial == [kind |-> "partial"]

(***************************************************************************)
(* Input domains                                                           *)
(***************************************************************************)
Fracs == {0, 1}
Durations ==
    {x \in {F64(w, f) : w \in (THIRTY - 1)..(THIRTY + MaxExtra), f \in Fracs} :
        F64Le(x, F64Int(THIRTY + MaxExtra))}

Row(t, l, d, u, p) ==
    [ZENCRYPTEDTITLE |-> t, ZCUSTOMLABEL |-> l, ZDATE |-> d,
     ZDURATION |-> u, ZPATH |-> p]

\* rows whose title columns take every storage class
TitleRows ==
    {Row(t, l, SqlReal(F64Int(0)), SqlReal(u), SqlText("a.m4a")) :
        t \in {SqlNull, SqlText("Primary"), SqlBlob},
        l \in {SqlNull, SqlText("Secondary"), SqlBlob},
        u \in {F64Int(THIRTY), F64Int(THIRTY + MaxExtra)}}

\* rows whose date, duration and path columns take every storage class
ColumnRows ==
    {Row(SqlText("Primary"), SqlNull, d, u, p) :
        d \in {SqlNull, SqlReal(F64Int(0))},
        u \in {SqlNull, SqlText("long"), SqlInteger(THIRTY),
               SqlInteger(THIRTY + 1)} \cup {SqlReal(x) : x \in Durations},
        p \in {SqlNull, SqlText("a.m4a")}}

QueryRows == TitleRows \cup ColumnRows

\* well-formed rows, for the runs of the whole pipeline
RunRows ==
    {Row(SqlText("Primary"), SqlNull, SqlReal(F64Int(0)), SqlReal(u), SqlText(p)) :
        u \in {x \in Durations : x.w >= THIRTY}, p \in RecNames}

SeqsUpTo(S, n) == UNION {[1..k -> S] : k \in 0..n}

\* whole and fractional timestamps around the two epochs and around today
TsAnchors == {0 - CORE_DATA_EPOCH_OFFSET, 0, 800000000}
Timestamps ==
    {F64(a + d, f) : a \in TsAnchors, d \in (0 - TsSpread)..TsSpread, f \in Fracs}

NoMemo == [title |-> "", date |-> F64Int(0), duration |-> F64Int(0), path |-> ""]

(***************************************************************************)
(* The query alone                                                         *)
(***************************************************************************)
InitCommon ==
    /\ pc = "main"
    /\ memos = <<>>
    /\ memo = NoMemo
    /\ start_time = F64Int(0)
    /\ datetime = 0
    /\ image_paths = <<>>
    /\ invoked = <<>>
    /\ touched = {}
    /\ removed = {}
    /\ console = <<>>
    /\ exitCode = 0
    /\ ret = 0

InitQuery ==
    /\ InitCommon
    /\ home = TRUE
    /\ arg = F64Int(0)
    /\ \E rows \in SeqsUpTo(QueryRows, MaxQueryRows) :
         fs = [p \in Paths |->
                 IF p = get_voice_memos_db_path THEN DbFile(rows) ELSE Absent]

get_all_voice_memos ==
    /\ pc = "main"
    /\ memos' = QueryMemos(fs[get_voice_memos_db_path].rows)
    /\ pc' = "queried"
    /\ UNCHANGED <<home, fs, memo, start_time, datetime, image_paths, invoked,
                   touched, removed, console, exitCode, arg, ret>>

NextQuery == get_all_voice_memos

SpecQuery == InitQuery /\ [][NextQuery]_vars

(***************************************************************************)
(* The timestamp conversion alone                                          *)
(***************************************************************************)
InitTimestamp ==
    /\ InitCommon
    /\ home = TRUE
    /\ fs = [p \in Paths |-> Absent]
    /\ arg \in Timestamps

Convert ==
    /\ pc = "main"
    /\ ret' = core_data_to_unix_timestamp(arg)
    /\ pc' = "converted"
    /\ UNCHANGED <<home, fs, memos, memo, start_time, datetime, image_paths,
                   invoked, touched, removed, console, exitCode, arg>>

NextTimestamp == Convert

SpecTimestamp == InitTimestamp /\ [][NextTimestamp]_vars

(***************************************************************************)
(* The whole program                                                       *)
(***************************************************************************)
Init ==
    /\ InitCommon
    /\ home \in BOOLEAN
    /\ arg = F64Int(0)
    /\ \E db \in {Absent} \cup {DbFile(rows) : rows \in SeqsUpTo(RunRows, MaxRows)},
          local \in SUBSET RecNames :
         fs = [p \in Paths |->
                 IF p = get_voice_memos_db_path THEN db
                 ELSE IF p \in RecPaths /\ p.name \in local THEN AudioFile(p.name)
                 ELSE Absent]

\* return from main: Ok(()) is status 0, Err is status 1, a panic 101
Exit(code) == pc' = "exit" /\ exitCode' = code
Say(msgs) == console' = console \o msgs

\* Command::output() / spawn(): the process ran and exited with 0, ran and
\* exited otherwise, or could not be started
Outcomes == {"success", "failure", "notstarted"}
Ran(cmd, status) == invoked' = Append(invoked, [cmd |-> cmd, status |-> status])

\* output.status.success()
SuccessMutant(status) == status \in {"success", "failure"}

Success(status) == status = "success"

\* memos.is_empty()
IsEmptyMutant(ms) == Len(ms) > 0

IsEmpty(ms) == Len(ms) = 0

\* full_path.exists()
PathExistsMutant(p) == TRUE

PathExists(p) == p \in DOMAIN fs /\ fs[p] # Absent

\* memo.duration - 30.0
max_start_mutant(m) == F64AddInt(m.duration, 1 - THIRTY)

max_start(m) == F64AddInt(m.duration, 0 - THIRTY)

\* rng.gen_range(0.0..high): the values of the half-open range
GenRangeF64(high) ==
    {x \in {F64(w, f) : w \in 0..high.w, f \in Fracs} : F64Lt(x, high)}

\* main, lines 268-275: load the library, stop when it is empty
Main_Load ==
    /\ pc = "main"
    /\ IF ~home
       THEN /\ Exit(PANIC_EXIT)
            /\ Say(<<"Loading", "PanicHomeNotSet">>)
            /\ UNCHANGED memos
       ELSE IF fs[get_voice_memos_db_path] = Absent
       THEN /\ Exit(ERROR_EXIT)
            /\ Say(<<"Loading", "Error">>)
            /\ UNCHANGED memos
       ELSE /\ memos' = QueryMemos(fs[get_voice_memos_db_path].rows)
            /\ IF IsEmpty(memos')
               THEN Exit(0) /\ Say(<<"Loading", "NoMemosFound">>)
               ELSE pc' = "select" /\ Say(<<"Loading", "Found">>)
                    /\ UNCHANGED exitCode
    /\ UNCHANGED <<home, fs, memo, start_time, datetime, image_paths, invoked,
                   touched, removed, arg, ret>>

\* main, lines 277-319: pick a memo and a start, print the banner, stop when
\* the recording is not on disk
Main_Select ==
    /\ pc = "select"
    /\ \E idx \in 1..Len(memos) :
         \E start \in GenRangeF64(max_start(memos[idx])) :
            /\ memo' = memos[idx]
            /\ start_time' = start
            /\ datetime' = core_data_to_unix_timestamp(memos[idx].date)
            /\ IF ~PathExists(full_path(memos[idx]))
               THEN Exit(0) /\ Say(<<"Banner", "RecordingNotFound">>)
               ELSE pc' = "extract" /\ Say(<<"Banner">>) /\ UNCHANGED exitCode
    /\ UNCHANGED <<home, fs, memos, image_paths, invoked, touched, removed,
                   arg, ret>>

\* extract_and_create_video, lines 205-230: make the directory, cut the clip
Extract ==
    /\ pc = "extract"
    /\ \E dirOk \in BOOLEAN, status \in Outcomes, wrote \in BOOLEAN :
         IF ~dirOk
         THEN /\ Exit(ERROR_EXIT)
              /\ touched' = touched \cup {temp_dir}
              /\ Say(<<"Error">>)
              /\ UNCHANGED <<fs, invoked>>
         ELSE IF status = "notstarted"
         THEN /\ Exit(ERROR_EXIT)
              /\ touched' = touched \cup {temp_dir}
              /\ fs' = [fs EXCEPT ![temp_dir] = Directory]
              /\ Say(<<"Extracting", "Error">>)
              /\ UNCHANGED invoked
         ELSE /\ Ran("ffmpeg_extract", status)
              /\ touched' = touched \cup {temp_dir, clip_path}
              /\ IF Success(status)
                 THEN /\ fs' = [fs EXCEPT ![temp_dir] = Directory,
                                  ![clip_path] = ClipFile(memo.path, start_time)]
                      /\ pc' = "download"
                      /\ Say(<<"Extracting", "Extracted">>)
                      /\ UNCHANGED exitCode
                 ELSE /\ fs' = [fs EXCEPT ![temp_dir] = Directory,
                                  ![clip_path] = IF wrote THEN Partial ELSE @]
                      /\ Exit(ERROR_EXIT)
                      /\ Say(<<"Extracting", "Error">>)
    /\ UNCHANGED <<home, memos, memo, start_time, datetime, image_paths,
                   removed, arg, ret>>

\* download_public_domain_images, lines 82-116: one turn of the loop, and
\* the return once the last image is in
ImageLens == {MIN_IMAGE_LEN - 1, MIN_IMAGE_LEN}
DownloadImage ==
    /\ pc = "download"
    /\ LET i == Len(image_paths) IN
       \E status \in Outcomes, wrote \in BOOLEAN, len \in ImageLens :
         IF status = "notstarted"
         THEN /\ Exit(ERROR_EXIT)
              /\ Say(<<"Error">>)
              /\ UNCHANGED <<fs, invoked, touched, image_paths>>
         ELSE /\ Ran("curl", status)
              /\ touched' = touched \cup {image_path(i)}
              /\ fs' = [fs EXCEPT ![image_path(i)] =
                          IF wrote THEN ImageFile(len) ELSE @]
              /\ IF ~Success(status)
                 THEN /\ Exit(ERROR_EXIT)
                      /\ Say(<<"Error">>)
                      /\ UNCHANGED image_paths
                 ELSE IF ~wrote \/ len < MIN_IMAGE_LEN
                 THEN \* fs::metadata fails, or the file is too small
                      /\ Exit(ERROR_EXIT)
                      /\ Say(<<"Error">>)
                      /\ UNCHANGED image_paths
                 ELSE /\ image_paths' = Append(image_paths, image_path(i))
                      /\ pc' = IF i + 1 = IMAGE_COUNT THEN "compose" ELSE "download"
                      /\ Say(<<>>)
                      /\ UNCHANGED exitCode
    /\ UNCHANGED <<home, memos, memo, start_time, datetime, removed, arg, ret>>

\* create_video_with_images, lines 126-195
CreateVideo ==
    /\ pc = "compose"
    /\ \E writeOk \in BOOLEAN, status \in Outcomes, wrote \in BOOLEAN :
         LET lines == image_paths \o <<image_paths[Len(image_paths)]>>
             listed == [fs EXCEPT ![concat_file] = ConcatFile(lines)]
         IN
         IF ~writeOk
         THEN /\ Exit(ERROR_EXIT)
              /\ touched' = touched \cup {concat_file}
              /\ Say(<<"Creating", "Error">>)
              /\ UNCHANGED <<fs, invoked, removed>>
         ELSE IF status = "notstarted"
         THEN /\ Exit(ERROR_EXIT)
              /\ touched' = touched \cup {concat_file}
              /\ fs' = listed
              /\ Say(<<"Creating", "Error">>)
              /\ UNCHANGED <<invoked, removed>>
         ELSE /\ Ran("ffmpeg_video", status)
              /\ touched' = touched \cup {concat_file, video_path}
              /\ IF Success(status)
                 THEN /\ fs' = [listed EXCEPT ![video_path] = VideoFile(datetime),
                                              ![concat_file] = Absent]
                      /\ removed' = removed \cup {concat_file}
                      /\ pc' = "open"
                      /\ Say(<<"Creating", "Created">>)
                      /\ UNCHANGED exitCode
                 ELSE /\ fs' = [listed EXCEPT
                                  ![video_path] = IF wrote THEN Partial ELSE @]
                      /\ Exit(ERROR_EXIT)
                      /\ Say(<<"Creating", "Error">>)
                      /\ UNCHANGED removed
    /\ UNCHANGED <<home, memos, memo, start_time, datetime, image_paths, arg, ret>>

\* extract_and_create_video, lines 244-259, and main, lines 323-327
CleanupAndOpen ==
    /\ pc = "open"
    /\ LET gone == {image_paths[k] : k \in 1..Len(image_paths)} \cup {clip_path}
       IN  /\ removed' = removed \cup gone
           /\ touched' = touched \cup gone
           /\ fs' = [p \in DOMAIN fs |-> IF p \in gone THEN Absent ELSE fs[p]]
    /\ \E status \in {"spawned", "notstarted"} :
         IF status = "notstarted"
         THEN /\ Exit(ERROR_EXIT)
              /\ Say(<<"Opening", "Error">>)
              /\ UNCHANGED invoked
         ELSE /\ Ran("open_vlc", status)
              /\ Exit(0)
              /\ Say(<<"Opening", "Playing">>)
    /\ UNCHANGED <<home, memos, memo, start_time, datetime, image_paths, arg, ret>>

Next ==
    \/ Main_Load
    \/ Main_Select
    \/ Extract
    \/ DownloadImage
    \/ CreateVideo
    \/ CleanupAndOpen

Spec == Init /\ [][Next]_vars

(***************************************************************************)
(* Properties                                                              *)
(***************************************************************************)
Thirty == F64Int(THIRTY)
DbRows == fs[get_voice_memos_db_path].rows
IsNumber(v) == v.type \in {"real", "integer"}
NumberOf(v) == IF v.type = "real" THEN F64(v.w, v.f) ELSE F64Int(v.n)
\* the row holds a duration above thirty seconds
ExceedsThirty(row) ==
    IsNumber(row.ZDURATION) /\ F64Gt(NumberOf(row.ZDURATION), Thirty)
\* the row holds a duration above thirty seconds, a date and a path
Readable(row) ==
    ExceedsThirty(row) /\ IsNumber(row.ZDATE) /\ row.ZPATH.type = "text"
\* the position in the candidate list of the readable row i
Rank(i) == Cardinality({k \in 1..i : Readable(DbRows[k])})
TitleOf(i) == memos[Rank(i)].title
TempClean == \A p \in {temp_dir} \cup TempFiles : fs[p] = Absent
Cmds == [k \in 1..Len(invoked) |-> invoked[k].cmd]
Statuses == [k \in 1..Len(invoked) |-> invoked[k].status]

\* C1: every record of the candidate list has a duration strictly above 30
\* seconds; a record of exactly 30 seconds is not a candidate.
C1_CandidatesExceedThirty ==
    pc = "queried" =>
        \A j \in 1..Len(memos) : F64Gt(memos[j].duration, Thirty)

\* a database holding a 30.0 second row and a longer one: only one is kept
C1_Witness ==
    /\ pc = "queried"
    /\ Len(DbRows) = 2
    /\ Readable(DbRows[2])
    /\ DbRows[1] = [DbRows[2] EXCEPT !.ZDURATION = SqlReal(Thirty)]
    /\ Len(memos) = 1

\* C2: every row whose duration exceeds 30 seconds is in the candidate list,
\* rows without a date or a path included.
C2_EveryLongRowReturned ==
    pc = "queried" =>
        Len(memos) = Cardinality({i \in 1..Len(DbRows) : ExceedsThirty(DbRows[i])})

\* C4 as stated: a title column that is present (not NULL) gives the title,
\* the primary before the secondary, else "Untitled".
C4_PresentTitleUsed ==
    pc = "queried" =>
        \A i \in 1..Len(DbRows) :
            Readable(DbRows[i]) =>
                LET t == DbRows[i].ZENCRYPTEDTITLE
                    l == DbRows[i].ZCUSTOMLABEL
                IN  /\ Rank(i) <= Len(memos)
                    /\ IF t # SqlNull THEN t.type = "text" /\ TitleOf(i) = t.s
                       ELSE IF l # SqlNull THEN l.type = "text" /\ TitleOf(i) = l.s
                       ELSE TitleOf(i) = "Untitled"

\* C4 as amended: a title column gives the title when it holds text, the
\* primary before the secondary; a NULL or a value of another storage class
\* counts as absent; with neither the title is "Untitled".
C4_TextTitleUsed ==
    pc = "queried" =>
        \A i \in 1..Len(DbRows) :
            Readable(DbRows[i]) =>
                LET t == DbRows[i].ZENCRYPTEDTITLE
                    l == DbRows[i].ZCUSTOMLABEL
                IN  /\ Rank(i) <= Len(memos)
                    /\ IF t.type = "text" THEN TitleOf(i) = t.s
                       ELSE IF l.type = "text" THEN TitleOf(i) = l.s
                       ELSE TitleOf(i) = "Untitled"

\* one memo titled by its secondary column behind a non-text primary, one
\* titled by its primary column although the secondary holds text
C4_Witness ==
    /\ pc = "queried"
    /\ Len(memos) = 2
    /\ DbRows[1].ZENCRYPTEDTITLE = SqlBlob
    /\ memos[1].title = "Secondary"
    /\ DbRows[2].ZCUSTOMLABEL = SqlText("Secondary")
    /\ memos[2].title = "Primary"

C3_StartInBounds ==
    /\ pc \in {"extract", "download", "compose", "open"} => memo # NoMemo
    /\ memo # NoMemo =>
        /\ \E j \in 1..Len(memos) : memos[j] = memo
        /\ F64Le(F64Int(0), start_time)
        /\ F64Le(start_time, F64AddInt(memo.duration, 0 - THIRTY))
        /\ F64Le(F64AddInt(start_time, THIRTY), memo.duration)

\* the second of two candidates is selected, with a start after 0
C3_Witness ==
    /\ pc = "extract"
    /\ Len(memos) = 2
    /\ memo = memos[2]
    /\ memo # memos[1]
    /\ F64Gt(start_time, F64Int(0))

\* C5: with an empty candidate list the run says that no memos were found,
\* exits with 0, selects nothing, creates nothing and runs no process.
C5_EmptyListCleanExit ==
    (pc # "main" /\ home /\ fs[get_voice_memos_db_path] # Absent /\ memos = <<>>) =>
        /\ pc = "exit"
        /\ exitCode = 0
        /\ console = <<"Loading", "NoMemosFound">>
        /\ memo = NoMemo
        /\ invoked = <<>>
        /\ touched = {}
        /\ TempClean

\* a database whose only rows are too short
C5_Witness ==
    /\ pc = "exit"
    /\ home
    /\ fs[get_voice_memos_db_path] # Absent
    /\ Len(DbRows) = 2
    /\ memos = <<>>
    /\ exitCode = 0

\* C6: when the selected recording is not on disk the run explains it and
\* exits with 0, runs no process and creates no temporary file.
C6_MissingFileCleanExit ==
    (memo # NoMemo /\ fs[full_path(memo)] = Absent) =>
        /\ pc = "exit"
        /\ exitCode = 0
        /\ console = <<"Loading", "Found", "Banner", "RecordingNotFound">>
        /\ invoked = <<>>
        /\ touched = {}
        /\ TempClean

\* one recording is on disk, the selected one is not
C6_Witness ==
    /\ pc = "exit"
    /\ memo # NoMemo
    /\ fs[full_path(memo)] = Absent
    /\ \E p \in RecPaths : fs[p] # Absent
    /\ exitCode = 0

\* C7: no step changes the database or a recording, and every path the
\* program creates, writes or removes is the temporary directory or in it.
C7_SourcesUntouched ==
    [][/\ \A p \in SourcePaths : fs'[p] = fs[p]
       /\ \A p \in Paths : fs'[p] # fs[p] => InTempDir(p)
       /\ \A p \in touched' : InTempDir(p)]_vars

\* a run that ends with the video made and the clip removed
C7_Witness ==
    /\ pc = "exit"
    /\ exitCode = 0
    /\ fs[video_path] = VideoFile(datetime)
    /\ fs[full_path(memo)] = AudioFile(memo.path)
    /\ clip_path \in removed

\* C8: a process that exits non-zero is the last one run and the run ends
\* with a non-zero status; the player is started only after the extraction,
\* the six image fetches and the composition have succeeded, in that order.
C8_FailureIsFatal ==
    /\ \A k \in 1..Len(invoked) :
          invoked[k].status = "failure" =>
              k = Len(invoked) /\ pc = "exit" /\ exitCode # 0
    /\ (\E k \in 1..Len(invoked) : invoked[k].cmd = "open_vlc") =>
          /\ Cmds = <<"ffmpeg_extract">> \o [k \in 1..IMAGE_COUNT |-> "curl"]
                      \o <<"ffmpeg_video", "open_vlc">>
          /\ \A k \in 1..(Len(invoked) - 1) : invoked[k].status = "success"

\* the third image fetch exits non-zero
C8_Witness ==
    /\ pc = "exit"
    /\ exitCode = ERROR_EXIT
    /\ Statuses = <<"success", "success", "success", "failure">>

\* C10: when the run has ended, every intermediate file a step has produced
\* (clip, image, concat list) has had its removal attempted; what a failed
\* ffmpeg may have left half-written is not counted.
C10_IntermediatesRemoved ==
    pc = "exit" =>
        \A p \in TempFiles \ {video_path} :
            (fs[p] # Absent /\ fs[p] # Partial) => p \in removed

====
